---- MODULE Spec2Model ----
(***************************************************************************)
(* Model of src/data_preprocessing.py: the loader/harmonizer               *)
(* combine_common_columns_with_age, the two filters filter_age and         *)
(* filter_cols, and the orchestrator preprocess_data.                      *)
(*                                                                         *)
(* A table (pandas DataFrame) is a record [cols, rows]: cols is the set of *)
(* column names, rows the sequence of rows.  A row is [origin, cells]:     *)
(* cells maps every column of the table to a value, origin is a history    *)
(* value <<k, j>> saying the row was the j-th row of the k-th directory    *)
(* entry (it is not a column and no operation reads it).                   *)
(***************************************************************************)
EXTENDS Integers, Sequences, FiniteSets, TLC

(* ------------------------------ bounds -------------------------------- *)
\* most entries os.listdir returns
MaxFiles == 2
\* most data rows in one file
MaxRows == 1

(* ------------------------- values and strings ------------------------- *)
\* a missing numeric cell (NaN); every real value of the model is >= 1
NA == -1
\* a missing string cell (the NaN str.extract gives when nothing matches)
NaStr == "nan"

IsNA(v) == v = NA

\* str.endswith
EndsWith(s, suf) ==
    /\ Len(s) >= Len(suf)
    /\ SubSeq(s, Len(s) - Len(suf) + 1, Len(s)) = suf

\* str.startswith with one prefix
StartsWith(s, p) ==
    /\ Len(s) >= Len(p)
    /\ SubSeq(s, 1, Len(p)) = p

\* an unanchored search for a literal
Contains(s, sub) ==
    \E k \in 1..(Len(s) - Len(sub) + 1) : SubSeq(s, k, k + Len(sub) - 1) = sub

Digits == {"0", "1", "2", "3", "4", "5", "6", "7", "8", "9"}

\* the positions at which the pattern 20\d{2} matches
YearMatches(s) ==
    {k \in 1..(Len(s) - 3) :
        /\ SubSeq(s, k, k + 1) = "20"
        /\ SubSeq(s, k + 2, k + 2) \in Digits
        /\ SubSeq(s, k + 3, k + 3) \in Digits}

\* Series.str.extract(r"(20\d{2})") on one value: the first match, or missing
ExtractYear(s) ==
    IF YearMatches(s) = {} THEN NaStr
    ELSE LET k == CHOOSE m \in YearMatches(s) : \A n \in YearMatches(s) : m <= n
         IN  SubSeq(s, k, k + 3)

\* Series.str.contains("2021|2022|2023") on one value
RecentYears == {"2021", "2022", "2023"}
IsRecent(s) == \E y \in RecentYears : Contains(s, y)

\* Series.between(lo, hi), inclusive on both sides; NaN compares false
Between(v, lo, hi) == ~IsNA(v) /\ lo <= v /\ v <= hi

(* --------------------------- the input space -------------------------- *)
\* names os.listdir may return: two recent-cohort names, names without a
\* recent year, and one name the extension test rejects
FileNames == {"2022.txt", "n2021.tsv", "old.txt", "2019.tsv", "2023.csv"}

\* header rows of the files (raw column names)
Schemas ==
    { {"AGE2", "ALCEVER", "IRSEX"},
      {"AGE3", "ALCEVER", "QUESTID"},
      {"ALCEVER", "IRSEX"},
      {"AGE3", "QUESTID"} }

AgeVals == {NA, 3, 4, 7, 8, 13, 14}
AlcVals == {NA, 1, 2, 3}
AllVals == AgeVals \cup AlcVals

CellVals(c) ==
    IF c \in {"AGE2", "AGE3"} THEN AgeVals
    ELSE IF c = "ALCEVER" THEN AlcVals
    ELSE {1}

\* the data rows a file with header `cols` can hold
RawRows(cols) == {f \in [cols -> AllVals] : \A c \in cols : f[c] \in CellVals(c)}

SeqsUpTo(S, n) == UNION {[1..m -> S] : m \in 0..n}

\* directory listings: distinct names, in any order
Listings ==
    {l \in SeqsUpTo(FileNames, MaxFiles) :
        \A a, b \in 1..Len(l) : a # b => l[a] # l[b]}

EmptyTable == [cols |-> {}, rows |-> <<>>]

(* ----------------------- loader: per-file steps ----------------------- *)
VARIABLES
    listing,        \* os.listdir(directory), fixed for the run
    i,              \* position of the for loop in listing
    dfs,            \* frames of the files parsed so far
    common_cols,    \* running intersection; [isNone |-> TRUE] before the first file
    log,            \* lines printed so far
    disk,           \* history: what each visited entry turned out to hold
    combined,       \* the loader's return value
    filtered_age,   \* filter_age's return value
    df_filtered,    \* filter_cols's return value
    raised,         \* the exception that ended the run, "" if none
    pc              \* "load", "age", "cols", "returned", or where the run
                    \* was when an exception ended it: "age_raised", "cols_raised"

vars == <<listing, i, dfs, common_cols, log, disk, combined, filtered_age,
          df_filtered, raised, pc>>

None == [isNone |-> TRUE, set |-> {}]
Some(S) == [isNone |-> FALSE, set |-> S]

age_column_candidates == <<"AGE2", "AGE3">>

\* file.endswith(".txt") or file.endswith(".tsv")
Selected(file) == EndsWith(file, ".txt") \/ EndsWith(file, ".tsv")

\* pd.read_csv on a readable file: header `cols`, data rows `raw`, read as
\* the k-th directory entry
ReadCsv(k, cols, raw) ==
    [cols |-> cols,
     rows |-> [j \in 1..Len(raw) |-> [origin |-> <<k, j>>, cells |-> raw[j]]]]

\* os.path.join(directory, file) with the directory preprocess_data passes
file_path(file) == "../data/raw/" \o file

\* variant: the rows are tagged with the path instead of the name
TagSource_Path(df, file) ==
    [cols |-> df.cols \cup {"source_file"},
     rows |-> [j \in 1..Len(df.rows) |->
                 [origin |-> df.rows[j].origin,
                  cells  |-> [c \in df.cols \cup {"source_file"} |->
                                IF c = "source_file" THEN file_path(file)
                                ELSE df.rows[j].cells[c]]]]]

\* df["source_file"] = file
TagSource(df, file) ==
    [cols |-> df.cols \cup {"source_file"},
     rows |-> [j \in 1..Len(df.rows) |->
                 [origin |-> df.rows[j].origin,
                  cells  |-> [c \in df.cols \cup {"source_file"} |->
                                IF c = "source_file" THEN file
                                ELSE df.rows[j].cells[c]]]]]

\* the first candidate that is a column, 0 if none
FirstAlias(cols) ==
    IF \E a \in 1..Len(age_column_candidates) : age_column_candidates[a] \in cols
    THEN CHOOSE a \in 1..Len(age_column_candidates) :
            /\ age_column_candidates[a] \in cols
            /\ \A b \in 1..(a - 1) : age_column_candidates[b] \notin cols
    ELSE 0

RenamedCols(cols) ==
    IF FirstAlias(cols) = 0 THEN cols
    ELSE (cols \ {age_column_candidates[FirstAlias(cols)]}) \cup {"AGE"}

\* the rename loop: the first matching alias becomes "AGE", then break
RenameAge(df) ==
    IF FirstAlias(df.cols) = 0 THEN df
    ELSE LET old == age_column_candidates[FirstAlias(df.cols)]
         IN  [cols |-> RenamedCols(df.cols),
              rows |-> [j \in 1..Len(df.rows) |->
                          [origin |-> df.rows[j].origin,
                           cells  |-> [c \in RenamedCols(df.cols) |->
                                         IF c = "AGE" THEN df.rows[j].cells[old]
                                         ELSE df.rows[j].cells[c]]]]]

\* variant: the intersection is overwritten by the newest file's columns
UpdateCommon_Overwrite(cc, cols) == Some(cols)

\* common_cols = cols on the first file, common_cols &= cols afterwards
UpdateCommon(cc, cols) ==
    IF cc.isNone THEN Some(cols) ELSE Some(cc.set \cap cols)

\* the body of the try block for one readable file; st = [dfs, common_cols, log]
Ingest(st, k, file, cols, raw) ==
    LET df == RenameAge(TagSource(ReadCsv(k, cols, raw), file))
    IN  [dfs         |-> Append(st.dfs, df),
         common_cols |-> UpdateCommon(st.common_cols, df.cols \ {"source_file"}),
         log         |-> st.log]

FailedMsg(file) == "Failed to read " \o file

\* variant: the failing file is counted as a parsed file with no columns
OnFailure_EmptyFrame(st, file) ==
    [dfs         |-> Append(st.dfs, EmptyTable),
     common_cols |-> UpdateCommon(st.common_cols, {}),
     log         |-> Append(st.log, FailedMsg(file))]

\* the except branch: read_csv raised, only the message is printed
OnFailure(st, file) ==
    [dfs         |-> st.dfs,
     common_cols |-> st.common_cols,
     log         |-> Append(st.log, FailedMsg(file))]

(* ------------------------ loader: after the loop ---------------------- *)
NoCompatibleMsg == "No compatible files found."

\* final_cols = list(common_cols | {"AGE", "source_file"})
FinalCols(common) == common \cup {"AGE", "source_file"}

\* df[[col for col in final_cols if col in df.columns]]
Project(df, final_cols) ==
    [cols |-> df.cols \cap final_cols,
     rows |-> [j \in 1..Len(df.rows) |->
                 [origin |-> df.rows[j].origin,
                  cells  |-> [c \in df.cols \cap final_cols |-> df.rows[j].cells[c]]]]]

\* a row of one frame in the concatenation: columns it lacks are NaN
Pad(row, cols) ==
    [origin |-> row.origin,
     cells  |-> [c \in cols |-> IF c \in DOMAIN row.cells THEN row.cells[c] ELSE NA]]

RECURSIVE ConcatRows(_, _)
ConcatRows(frames, cols) ==
    IF frames = <<>> THEN <<>>
    ELSE [j \in 1..Len(Head(frames).rows) |-> Pad(Head(frames).rows[j], cols)]
         \o ConcatRows(Tail(frames), cols)

\* pd.concat(frames, ignore_index=True): union of the columns, rows in order
Concat(frames) ==
    LET cols == UNION {frames[k].cols : k \in 1..Len(frames)}
    IN  [cols |-> cols, rows |-> ConcatRows(frames, cols)]

\* lines 44-53; st = [dfs, common_cols, log]
Finish(st) ==
    IF st.dfs = <<>> \/ st.common_cols.isNone \/ st.common_cols.set = {}
    THEN [table |-> EmptyTable, log |-> Append(st.log, NoCompatibleMsg)]
    ELSE LET final_cols == FinalCols(st.common_cols.set)
             final_dfs  == [k \in 1..Len(st.dfs) |-> Project(st.dfs[k], final_cols)]
         IN  [table |-> Concat(final_dfs), log |-> st.log]

(* ------------------------------ filter_age ---------------------------- *)
Ok(t) == [err |-> "", table |-> t]
KeyError(key) == [err |-> "KeyError: " \o key, table |-> EmptyTable]

RecentLo == 4
RecentHi == 7
OlderLo == 7
OlderHi == 13

\* variant: the recent cohort is held to the other cohort's upper bound
KeepRecent_OlderHi(row) ==
    IsRecent(row.cells["source_file"]) /\ Between(row.cells["AGE"], RecentLo, OlderHi)

KeepRecent(row) ==
    IsRecent(row.cells["source_file"]) /\ Between(row.cells["AGE"], RecentLo, RecentHi)
KeepOlder(row) ==
    ~IsRecent(row.cells["source_file"]) /\ Between(row.cells["AGE"], OlderLo, OlderHi)

\* variant: the two subsets are concatenated the other way round
filter_age_OlderFirst(df) ==
    IF "source_file" \notin df.cols THEN KeyError("source_file")
    ELSE IF "AGE" \notin df.cols THEN KeyError("AGE")
    ELSE LET subset_recent == [cols |-> df.cols, rows |-> SelectSeq(df.rows, KeepRecent)]
             subset_older  == [cols |-> df.cols, rows |-> SelectSeq(df.rows, KeepOlder)]
         IN  Ok(Concat(<<subset_older, subset_recent>>))

filter_age(df) ==
    IF "source_file" \notin df.cols THEN KeyError("source_file")
    ELSE IF "AGE" \notin df.cols THEN KeyError("AGE")
    ELSE LET subset_recent == [cols |-> df.cols, rows |-> SelectSeq(df.rows, KeepRecent)]
             subset_older  == [cols |-> df.cols, rows |-> SelectSeq(df.rows, KeepOlder)]
         IN  Ok(Concat(<<subset_recent, subset_older>>))

(* ------------------------------ filter_cols --------------------------- *)
Prefixes == <<"ALC", "ALD", "UAD", "AGE", "FILEDATE", "IRSEX", "source_file", "AL30">>

\* col.startswith((...)) with the tuple of prefixes
HasPrefix(col) == \E k \in 1..Len(Prefixes) : StartsWith(col, Prefixes[k])

AlcEverCodes == {1, 2}

\* variant: only the missing code is rejected
KeepAlcEver_NotMissing(row) == ~IsNA(row.cells["ALCEVER"])

KeepAlcEver(row) == row.cells["ALCEVER"] \in AlcEverCodes

\* df_filtered["year"] = df_filtered["source_file"].str.extract(...)
WithYear(df) ==
    [cols |-> df.cols \cup {"year"},
     rows |-> [j \in 1..Len(df.rows) |->
                 [origin |-> df.rows[j].origin,
                  cells  |-> [c \in df.cols \cup {"year"} |->
                                IF c = "year"
                                THEN ExtractYear(df.rows[j].cells["source_file"])
                                ELSE df.rows[j].cells[c]]]]]

\* variant: no column is dropped
filter_cols_AllColumns(df) ==
    IF "source_file" \notin df.cols THEN KeyError("source_file")
    ELSE IF "ALCEVER" \notin df.cols THEN KeyError("ALCEVER")
    ELSE Ok([cols |-> WithYear(df).cols,
             rows |-> SelectSeq(WithYear(df).rows, KeepAlcEver)])

\* variant: the value filter is passed over when ALCEVER is not a column
filter_cols_Lenient(df) ==
    LET filtered_columns == {col \in df.cols : HasPrefix(col)}
        selected == Project(df, filtered_columns)
    IN  IF "source_file" \notin selected.cols THEN KeyError("source_file")
        ELSE IF "ALCEVER" \notin selected.cols THEN Ok(WithYear(selected))
        ELSE Ok([cols |-> WithYear(selected).cols,
                 rows |-> SelectSeq(WithYear(selected).rows, KeepAlcEver)])

filter_cols(df) ==
    LET filtered_columns == {col \in df.cols : HasPrefix(col)}
        selected == Project(df, filtered_columns)
    IN  IF "source_file" \notin selected.cols THEN KeyError("source_file")
        ELSE IF "ALCEVER" \notin selected.cols THEN KeyError("ALCEVER")
        ELSE Ok([cols |-> WithYear(selected).cols,
                 rows |-> SelectSeq(WithYear(selected).rows, KeepAlcEver)])

(* ------------------------------- the run ------------------------------ *)
Init ==
    /\ listing \in Listings
    /\ i = 1
    /\ dfs = <<>>
    /\ common_cols = None
    /\ log = <<>>
    /\ disk = <<>>
    /\ combined = EmptyTable
    /\ filtered_age = EmptyTable
    /\ df_filtered = EmptyTable
    /\ raised = ""
    /\ pc = "load"

LoaderState == [dfs |-> dfs, common_cols |-> common_cols, log |-> log]

\* a directory entry without one of the two extensions is passed over
SkipEntry ==
    /\ pc = "load"
    /\ i <= Len(listing)
    /\ ~Selected(listing[i])
    /\ i' = i + 1
    /\ disk' = Append(disk, [k |-> i, name |-> listing[i], state |-> "skipped",
                             cols |-> {}, raw |-> <<>>])
    /\ UNCHANGED <<listing, dfs, common_cols, log, combined, filtered_age,
                   df_filtered, raised, pc>>

\* one iteration of the loop on a file read_csv can parse
ReadFile ==
    /\ pc = "load"
    /\ i <= Len(listing)
    /\ Selected(listing[i])
    /\ \E cols \in Schemas :
         \E raw \in SeqsUpTo(RawRows(cols), MaxRows) :
            LET st == Ingest(LoaderState, i, listing[i], cols, raw)
            IN  /\ dfs' = st.dfs
                /\ common_cols' = st.common_cols
                /\ log' = st.log
                /\ disk' = Append(disk, [k |-> i, name |-> listing[i],
                                         state |-> "parsed", cols |-> cols, raw |-> raw])
    /\ i' = i + 1
    /\ UNCHANGED <<listing, combined, filtered_age, df_filtered, raised, pc>>

\* one iteration of the loop on a file read_csv raises on
ReadFails ==
    /\ pc = "load"
    /\ i <= Len(listing)
    /\ Selected(listing[i])
    /\ LET st == OnFailure(LoaderState, listing[i])
       IN  /\ dfs' = st.dfs
           /\ common_cols' = st.common_cols
           /\ log' = st.log
    /\ disk' = Append(disk, [k |-> i, name |-> listing[i], state |-> "failed",
                             cols |-> {}, raw |-> <<>>])
    /\ i' = i + 1
    /\ UNCHANGED <<listing, combined, filtered_age, df_filtered, raised, pc>>

\* the loop is over: combine_common_columns_with_age returns
LoaderReturn ==
    /\ pc = "load"
    /\ i > Len(listing)
    /\ combined' = Finish(LoaderState).table
    /\ log' = Finish(LoaderState).log
    /\ pc' = "age"
    /\ UNCHANGED <<listing, i, dfs, common_cols, disk, filtered_age, df_filtered, raised>>

\* preprocess_data line 83
CallFilterAge ==
    /\ pc = "age"
    /\ LET r == filter_age(combined)
       IN  /\ raised' = r.err
           /\ filtered_age' = r.table
           /\ pc' = IF r.err = "" THEN "cols" ELSE "age_raised"
    /\ UNCHANGED <<listing, i, dfs, common_cols, log, disk, combined, df_filtered>>

\* preprocess_data lines 84-85
CallFilterCols ==
    /\ pc = "cols"
    /\ LET r == filter_cols(filtered_age)
       IN  /\ raised' = r.err
           /\ df_filtered' = r.table
           /\ pc' = IF r.err = "" THEN "returned" ELSE "cols_raised"
    /\ UNCHANGED <<listing, i, dfs, common_cols, log, disk, combined, filtered_age>>

Next ==
    \/ SkipEntry
    \/ ReadFile
    \/ ReadFails
    \/ LoaderReturn
    \/ CallFilterAge
    \/ CallFilterCols

Spec == Init /\ [][Next]_vars

(* ============================ properties ============================== *)
LoaderReturned == pc # "load"
AgeReturned == pc \in {"cols", "returned", "cols_raised"}
ColsReturned == pc = "returned"

RowsOf(t) == {t.rows[j] : j \in 1..Len(t.rows)}
ParsedEntries == {disk[k] : k \in {n \in 1..Len(disk) : disk[n].state = "parsed"}}
FailedEntries == {disk[k] : k \in {n \in 1..Len(disk) : disk[n].state = "failed"}}
InLog(msg) == \E k \in 1..Len(log) : log[k] = msg
Inter(SS) == {c \in UNION SS : \A S \in SS : c \in S}

C2_AlcEverCodes ==
    ColsReturned =>
        \A row \in RowsOf(df_filtered) :
            row.cells["ALCEVER"] = 1 \/ row.cells["ALCEVER"] = 2

\* filter_cols returned a row and dropped a row of an accepted age whose
\* ALCEVER was 3
C2_Witness ==
    /\ ColsReturned
    /\ df_filtered.rows # <<>>
    /\ \E row \in RowsOf(filtered_age) :
          /\ row.cells["ALCEVER"] = 3
          /\ \A kept \in RowsOf(df_filtered) : kept.origin # row.origin

\* C3 as stated: every column of the table filter_cols returns starts with
\* one of the eight prefixes.
C3_AllColumnsPrefixed ==
    ColsReturned => \A c \in df_filtered.cols : HasPrefix(c)

\* C3 as amended: every column of the table filter_cols returns other than
\* the derived column year starts with one of the eight prefixes, and year
\* is a column of it.
C3_ColumnsPrefixedExceptYear ==
    ColsReturned =>
        /\ "year" \in df_filtered.cols
        /\ \A c \in df_filtered.cols \ {"year"} :
              \E k \in 1..Len(Prefixes) : StartsWith(c, Prefixes[k])

\* filter_cols returned a table after dropping the column QUESTID
C3_Witness ==
    /\ ColsReturned
    /\ "QUESTID" \in filtered_age.cols
    /\ "QUESTID" \notin df_filtered.cols

\* C4: at every stage every row's source_file is the name of the directory
\* entry the row was read from, and a row that survives a filter has the
\* source_file it had in the filter's input.
C4_Provenance ==
    /\ \A row \in RowsOf(combined) \cup RowsOf(filtered_age) \cup RowsOf(df_filtered) :
          row.cells["source_file"] = listing[row.origin[1]]
    /\ \A row \in RowsOf(filtered_age) :
          \E before \in RowsOf(combined) :
             /\ before.origin = row.origin
             /\ before.cells["source_file"] = row.cells["source_file"]
    /\ \A row \in RowsOf(df_filtered) :
          \E before \in RowsOf(filtered_age) :
             /\ before.origin = row.origin
             /\ before.cells["source_file"] = row.cells["source_file"]

\* rows of two different files came through both filters
C4_Witness ==
    /\ ColsReturned
    /\ \E r1, r2 \in RowsOf(df_filtered) :
          r1.cells["source_file"] # r2.cells["source_file"]

\* C5 as stated: when no file was parsed, or the parsed files have no column
\* name in common, the loader returns a table without rows and prints the
\* "No compatible files found." line.
C5_NoCommonColumnsEmpty ==
    (LoaderReturned /\ Inter({e.cols : e \in ParsedEntries}) = {}) =>
        /\ combined.rows = <<>>
        /\ InLog(NoCompatibleMsg)

\* C6: a file read_csv fails on leaves the loader's frames and intersection
\* as they were, adds no rows, is named in a printed line, and the loader
\* returns what it returns for the parsed files alone.
RECURSIVE Replay(_, _)
Replay(st, entries) ==
    IF entries = <<>> THEN st
    ELSE LET e == Head(entries)
         IN  Replay(IF e.state = "parsed"
                    THEN Ingest(st, e.k, e.name, e.cols, e.raw)
                    ELSE st,
                    Tail(entries))

WithoutFailed == Replay([dfs |-> <<>>, common_cols |-> None, log |-> <<>>], disk)

C6_FailedFileSkipped ==
    /\ dfs = WithoutFailed.dfs
    /\ common_cols = WithoutFailed.common_cols
    /\ \A e \in FailedEntries : InLog("Failed to read " \o e.name)
    /\ LoaderReturned =>
          /\ combined = Finish(WithoutFailed).table
          /\ \A e \in FailedEntries : \A row \in RowsOf(combined) : row.origin[1] # e.k

\* the loader returned rows although one file failed to parse
C6_Witness ==
    /\ LoaderReturned
    /\ FailedEntries # {}
    /\ combined.rows # <<>>

\* C7 as stated: when no file was parsed or the intersection is empty, the
\* run does not end in an exception of a later stage.
C7_EmptyPathReturns ==
    (LoaderReturned /\ (dfs = <<>> \/ common_cols.set = {})) =>
        pc \notin {"age_raised", "cols_raised"}

\* C8: a table the loader builds has as columns the intersection of the
\* parsed files' renamed column sets, source_file, and AGE exactly when some
\* parsed file has AGE after renaming; its columns other than AGE and
\* source_file are columns of every parsed file.
C8_HarmonizedColumns ==
    (LoaderReturned /\ combined.cols # {}) =>
        LET renamed == {RenamedCols(e.cols) : e \in ParsedEntries}
        IN  /\ combined.cols =
                  Inter(renamed) \cup {"source_file"}
                  \cup (IF \E S \in renamed : "AGE" \in S THEN {"AGE"} ELSE {})
            /\ \A c \in combined.cols \ {"AGE", "source_file"} :
                  \A e \in ParsedEntries : c \in e.cols

\* two files with different columns were combined, AGE being a column of
\* only one of them
C8_Witness ==
    /\ LoaderReturned
    /\ combined.rows # <<>>
    /\ "AGE" \in combined.cols
    /\ "AGE" \notin common_cols.set
    /\ \E e1, e2 \in ParsedEntries : e1.cols # e2.cols

\* C9: when ALCEVER is not a column of filter_cols's input the call ends in a
\* KeyError, and a table the pipeline returns has the column ALCEVER.
C9_MissingAlcEverIsFatal ==
    /\ (pc \in {"returned", "cols_raised"} /\ "ALCEVER" \notin filtered_age.cols) =>
          (pc = "cols_raised" /\ raised = "KeyError: ALCEVER")
    /\ ColsReturned => "ALCEVER" \in df_filtered.cols

\* filter_cols was called on a table without ALCEVER
C9_Witness ==
    /\ pc = "cols_raised"
    /\ "ALCEVER" \notin filtered_age.cols
    /\ filtered_age.rows # <<>>

\* C10: filter_age returns the retained recent-cohort rows, then the retained
\* other-cohort rows, each group in input order, no input row twice.
PosIn(t, o) == CHOOSE p \in 1..Len(t.rows) : t.rows[p].origin = o

Retained(row) ==
    LET age == row.cells["AGE"]
    IN  /\ age # NA
        /\ IF IsRecent(row.cells["source_file"])
           THEN 4 <= age /\ age <= 7
           ELSE 7 <= age /\ age <= 13

C10_AgeFilterOrder ==
    AgeReturned =>
        LET out == filtered_age.rows
        IN  /\ \A a, b \in 1..Len(out) :
                  a < b =>
                    /\ out[a].origin # out[b].origin
                    /\ IsRecent(out[b].cells["source_file"])
                          => IsRecent(out[a].cells["source_file"])
                    /\ (IsRecent(out[a].cells["source_file"])
                          = IsRecent(out[b].cells["source_file"]))
                          => PosIn(combined, out[a].origin) < PosIn(combined, out[b].origin)
            /\ \A a \in 1..Len(out) :
                  \E row \in RowsOf(combined) :
                     row.origin = out[a].origin /\ row.cells = out[a].cells
            /\ \A row \in RowsOf(combined) :
                  Retained(row) <=> \E a \in 1..Len(out) : out[a].origin = row.origin

\* a recent-cohort row that came after an other-cohort row in the input
\* comes before it in the output
C10_Witness ==
    /\ AgeReturned
    /\ Len(filtered_age.rows) = 2
    /\ IsRecent(filtered_age.rows[1].cells["source_file"])
    /\ ~IsRecent(filtered_age.rows[2].cells["source_file"])
    /\ PosIn(combined, filtered_age.rows[1].origin)
          > PosIn(combined, filtered_age.rows[2].origin)

====
